---- MODULE Spec2Model ----
(***************************************************************************)
(* Model of package fstest (src/fstest.go): the MapFS wrapper around the   *)
(* standard testing/fstest.MapFS, its subFS view, and the EqualFS          *)
(* comparator.                                                             *)
(*                                                                         *)
(* Strings are sequences of one-character strings, so that path            *)
(* validation, concatenation and joining are computed and not assumed.     *)
(* A file mode is a record [type, perm]; perm holds the nine permission    *)
(* bits as a number (0400 = 256).                                          *)
(***************************************************************************)
EXTENDS Integers, Sequences, FiniteSets, TLC

VARIABLES
    stdDirPerm, \* permission bits testing/fstest gives a synthesized directory
    source,     \* first file system given to EqualFSBuffer
    target,     \* second file system given to EqualFSBuffer
    buflen,     \* len(buf) of the caller's buffer (0 for nil)
    pc,         \* position of the running call
    events,     \* handle operations the running call has still to perform
    handles,    \* file handles currently open, each <<side, path>>
    entry,      \* directory entry the comparison is currently at
    result,     \* what EqualFSBuffer returned
    fsys,       \* the MapFS the file system operations are called on
    file,       \* the handle returned by the last successful Open
    last        \* the last file system operation and its outcome

vars == <<stdDirPerm, source, target, buflen, pc, events, handles, entry,
          result, fsys, file, last>>

----------------------------------------------------------------------------
(* Strings and paths *)

Dot == <<".">>

\* byte order of the characters that occur in names
CharOrd(c) == CASE c = "." -> 46 [] c = "/" -> 47 [] c = "a" -> 97
                [] c = "b" -> 98 [] OTHER -> 120

RECURSIVE StrLess(_, _)
StrLess(s, t) ==
    IF t = <<>> THEN FALSE
    ELSE IF s = <<>> THEN TRUE
    ELSE IF s[1] # t[1] THEN CharOrd(s[1]) < CharOrd(t[1])
    ELSE StrLess(Tail(s), Tail(t))

HasPrefix(s, prefix) ==
    Len(s) >= Len(prefix) /\ SubSeq(s, 1, Len(prefix)) = prefix

\* strings.Index(s, "/"), 1-based; 0 when there is none
IndexSlash(s) ==
    IF \E i \in 1..Len(s) : s[i] = "/"
    THEN CHOOSE i \in 1..Len(s) : s[i] = "/" /\ \A j \in 1..(i-1) : s[j] # "/"
    ELSE 0

RECURSIVE SplitFrom(_, _, _)
SplitFrom(s, i, cur) ==
    IF i > Len(s) THEN <<cur>>
    ELSE IF s[i] = "/" THEN <<cur>> \o SplitFrom(s, i + 1, <<>>)
    ELSE SplitFrom(s, i + 1, Append(cur, s[i]))

\* the elements of s between slashes
Split(s) == SplitFrom(s, 1, <<>>)

\* io/fs.ValidPath
ValidPath(name) ==
    \/ name = Dot
    \/ \A k \in 1..Len(Split(name)) :
          Split(name)[k] \notin {<<>>, <<".">>, <<".", ".">>}

RECURSIVE CleanElems(_, _)
\* path.Clean on the elements of a relative path: drops "" and ".", and
\* lets ".." remove the element before it
CleanElems(elems, acc) ==
    IF elems = <<>> THEN acc
    ELSE IF elems[1] \in {<<>>, <<".">>} THEN CleanElems(Tail(elems), acc)
    ELSE IF elems[1] = <<".", ".">> /\ acc # <<>> /\ acc[Len(acc)] # <<".", ".">>
         THEN CleanElems(Tail(elems), SubSeq(acc, 1, Len(acc) - 1))
    ELSE CleanElems(Tail(elems), Append(acc, elems[1]))

RECURSIVE JoinElems(_)
JoinElems(elems) ==
    IF elems = <<>> THEN <<>>
    ELSE IF Len(elems) = 1 THEN elems[1]
    ELSE elems[1] \o <<"/">> \o JoinElems(Tail(elems))

\* path.Join(dir, name) for relative paths
PathJoin(dir, name) ==
    LET joined == IF dir = <<>> THEN name
                  ELSE IF name = <<>> THEN dir
                  ELSE dir \o <<"/">> \o name
        cleaned == JoinElems(CleanElems(Split(joined), <<>>))
    IN  IF joined = <<>> THEN <<>> ELSE IF cleaned = <<>> THEN Dot ELSE cleaned

----------------------------------------------------------------------------
(* Errors *)

Nil == [kind |-> "nil"]
ErrNotExist == [kind |-> "ErrNotExist"]
ErrPermission == [kind |-> "ErrPermission"]
ErrInvalid == [kind |-> "ErrInvalid"]
EOF == [kind |-> "EOF"]
ErrNotImplemented == [kind |-> "not implemented"]

\* &fs.PathError{Op, Path, Err}
PathError(op, path, err) == [kind |-> "PathError", op |-> op, path |-> path, err |-> err]

\* fmt.Errorf(msg, ...) without %w
Errorf(msg) == [kind |-> "errorString", msg |-> msg]

\* fmt.Errorf("%w", err)
ErrorfW(err) == [kind |-> "wrapError", err |-> err]

\* errors.Unwrap
Unwrap(err) == IF err.kind \in {"PathError", "wrapError"} THEN err.err ELSE Nil

----------------------------------------------------------------------------
(* testing/fstest.MapFS, which the wrapper delegates to.  A MapFS is a      *)
(* function from declared paths to MapFile records [Mode, Data, ModTime];   *)
(* fsys[name] == nil is name \notin DOMAIN fsys.                            *)

ModeDir == "ModeDir"
ModeSymlink == "ModeSymlink"
ModeNamedPipe == "ModeNamedPipe"
ModeRegular == "ModeRegular"

OwnerRead == 256        \* 0400
VirtualDirPerm == 448   \* 0700

\* perm & bit # 0, for a single permission bit
HasBit(perm, bit) == (perm \div bit) % 2 = 1

MapFile(type, perm, data, mtime) ==
    [Mode |-> [type |-> type, perm |-> perm], Data |-> data, ModTime |-> mtime]

\* the record testing/fstest makes up for a directory that is not declared
SynthDir == MapFile(ModeDir, stdDirPerm, <<>>, 0)

\* mapFileInfo{name, f}, as the fs.FileInfo it implements
FileInfo(name, f) ==
    [name |-> name, Mode |-> f.Mode, size |-> Len(f.Data),
     ModTime |-> f.ModTime, isDir |-> f.Mode.type = ModeDir]

NilInfo == FileInfo(<<>>, MapFile(ModeRegular, 0, <<>>, 0))

RECURSIVE SortEntries(_)
\* sort.Slice(list, by name)
SortEntries(S) ==
    IF S = {} THEN <<>>
    ELSE LET e == CHOOSE x \in S : \A y \in S : ~StrLess(y.name, x.name)
         IN  <<e>> \o SortEntries(S \ {e})

\* the children testing/fstest.MapFS.Open lists for directory name
DirList(m, name) ==
    LET prefix == IF name = Dot THEN <<>> ELSE name \o <<"/">>
        under  == {f \in DOMAIN m : HasPrefix(f, prefix) /\ Len(f) > Len(prefix)
                                    /\ f # Dot}
        rel(f) == SubSeq(f, Len(prefix) + 1, Len(f))
        listed == {[name |-> rel(f), file |-> m[f]] :
                      f \in {g \in under : IndexSlash(rel(g)) = 0}}
        need   == {SubSeq(rel(f), 1, IndexSlash(rel(f)) - 1) :
                      f \in {g \in under : IndexSlash(rel(g)) > 0}}
        made   == {[name |-> n, file |-> SynthDir] :
                      n \in need \ {e.name : e \in listed}}
    IN  SortEntries(listed \cup made)

\* strings after the last slash: the name a file reports
BaseName(name) ==
    LET parts == Split(name) IN parts[Len(parts)]

NilFile ==
    [wrap |-> "nil", base |-> "nil", path |-> <<>>, info |-> NilInfo,
     data |-> <<>>, list |-> <<>>, offset |-> 0]

OpenedFile(base, name, info, data, list) ==
    [wrap |-> "none", base |-> base, path |-> name, info |-> info,
     data |-> data, list |-> list, offset |-> 0]

\* testing/fstest.MapFS.Open on a directory, list being its children
StdOpenDir(m, name, list) ==
    IF name # Dot /\ name \notin DOMAIN m /\ list = <<>>
    THEN [file |-> NilFile, err |-> PathError("open", name, ErrNotExist)]
    ELSE [file |-> OpenedFile("mapDir", name,
                              FileInfo(BaseName(name),
                                       IF name \in DOMAIN m THEN m[name] ELSE SynthDir),
                              <<>>, list),
          err |-> Nil]

\* testing/fstest.MapFS.Open
StdOpen(m, name) ==
    IF ~ValidPath(name)
    THEN [file |-> NilFile, err |-> PathError("open", name, ErrNotExist)]
    ELSE IF name \in DOMAIN m /\ m[name].Mode.type # ModeDir
    THEN [file |-> OpenedFile("openMapFile", name,
                              FileInfo(BaseName(name), m[name]),
                              m[name].Data, <<>>),
          err |-> Nil]
    ELSE StdOpenDir(m, name, DirList(m, name))

\* Stat of an open handle; virtualDirectory.Stat overrides the mode
FileStat(f) ==
    IF f.wrap = "virtualDirectory"
    THEN [info |-> [f.info EXCEPT !.Mode = [type |-> ModeDir, perm |-> VirtualDirPerm]],
          err |-> Nil]
    ELSE [info |-> f.info, err |-> Nil]

Min(a, b) == IF a < b THEN a ELSE b

\* Read(b) with len(b) = n on an open handle: [n, data, err, file]
FileRead(f, n) ==
    IF f.wrap = "denyReadPermission"
    THEN [n |-> 0, data |-> <<>>, err |-> ErrPermission, file |-> f]
    ELSE IF f.base = "mapDir"
    THEN [n |-> 0, data |-> <<>>, err |-> PathError("read", f.path, ErrInvalid),
          file |-> f]
    ELSE IF f.offset >= f.info.size
    THEN [n |-> 0, data |-> <<>>, err |-> EOF, file |-> f]
    ELSE LET k == Min(n, f.info.size - f.offset)
         IN  [n |-> k, data |-> [i \in 1..k |-> f.data[f.offset + i]],
              err |-> Nil, file |-> [f EXCEPT !.offset = f.offset + k]]

\* ReadDir(count) on an open handle: [list, err, file]
FileReadDir(f, count) ==
    IF f.wrap = "denyReadPermission"
    THEN [list |-> <<>>, err |-> ErrPermission, file |-> f]
    ELSE LET rest == Len(f.list) - f.offset
             n    == IF count > 0 /\ rest > count THEN count ELSE rest
         IN  IF rest = 0 /\ count > 0
             THEN [list |-> <<>>, err |-> EOF, file |-> f]
             ELSE [list |-> SubSeq(f.list, f.offset + 1, f.offset + n),
                   err |-> Nil, file |-> [f EXCEPT !.offset = f.offset + n]]

\* whether the handle has a ReadDir method (is an fs.ReadDirFile)
IsReadDirFile(f) == f.wrap = "denyReadPermission" \/ f.base = "mapDir"

\* io/fs.Stat without a Stat method, r being what Open returned
StatOpened(r) ==
    IF r.err # Nil THEN [info |-> NilInfo, err |-> r.err] ELSE FileStat(r.file)

\* a ReadDir result without the handle
ListOf(d) == [list |-> d.list, err |-> d.err]

\* io/fs.ReadDir without a ReadDir method, r being what Open returned
ReadDirOpened(r, name) ==
    IF r.err # Nil THEN [list |-> <<>>, err |-> r.err]
    ELSE IF ~IsReadDirFile(r.file)
    THEN [list |-> <<>>, err |-> PathError("readdir", name, ErrNotImplemented)]
    ELSE ListOf(FileReadDir(r.file, -1))

\* testing/fstest.MapFS.Stat: io/fs.Stat through the standard Open
StdStat(m, name) == StatOpened(StdOpen(m, name))

\* testing/fstest.MapFS.ReadDir: io/fs.ReadDir through the standard Open
StdReadDir(m, name) == ReadDirOpened(StdOpen(m, name), name)

----------------------------------------------------------------------------
(* MapFS of this package and its subFS view *)

\* MapFS.Open after the standard Open returned r and f.Stat() returned s
MapFSOpened(m, name, r, s) ==
    IF r.err # Nil THEN [file |-> NilFile, err |-> r.err]
    ELSE IF s.err # Nil THEN [file |-> NilFile, err |-> s.err]
    ELSE IF s.info.isDir /\ name \notin DOMAIN m
    THEN [file |-> [r.file EXCEPT !.wrap = "virtualDirectory"], err |-> Nil]
    ELSE IF ~HasBit(s.info.Mode.perm, OwnerRead)
    THEN [file |-> [r.file EXCEPT !.wrap = "denyReadPermission"], err |-> Nil]
    ELSE r

\* the first two steps of MapFS.Open, r being what the standard Open returned
MapFSOpenStat(m, name, r) == MapFSOpened(m, name, r, FileStat(r.file))

\* MapFS.Open
MapFSOpen(m, name) == MapFSOpenStat(m, name, StdOpen(m, name))

\* MapFS.ReadDir
MapFSReadDir(m, name) == StdReadDir(m, name)

\* MapFS.Stat
MapFSStat(m, name) == StdStat(m, name)

\* MapFS.ReadLink: [link, err]
MapFSReadLink(m, name) ==
    IF ~ValidPath(name)
    THEN [link |-> <<>>, err |-> PathError("readlink", name, ErrNotExist)]
    ELSE IF name \notin DOMAIN m
    THEN [link |-> <<>>, err |-> PathError("readlink", name, ErrNotExist)]
    ELSE IF m[name].Mode.type # ModeSymlink
    THEN [link |-> <<>>, err |-> PathError("readlink", name, ErrInvalid)]
    ELSE [link |-> m[name].Data, err |-> Nil]

\* a file system value: a MapFS, a subFS view of one, or another provider
\* that serves a map and fails Open on the paths in fail with failErr
FS(kind, m, name, fail, failErr, statFS) ==
    [kind |-> kind, files |-> m, name |-> name, fail |-> fail,
     failErr |-> failErr, statFS |-> statFS]

MapFS(m) == FS("MapFS", m, Dot, {}, Nil, TRUE)

\* &subFS{fsys, name}
SubFS(m, name) == FS("subFS", m, name, {}, Nil, FALSE)

\* MapFS.Sub after fs.Stat(fsys, name) returned s
MapFSSubStat(m, name, s) ==
    IF s.err # Nil
    THEN [fs |-> MapFS(<<>>), err |-> s.err]
    ELSE [fs |-> SubFS(m, name), err |-> Nil]

\* MapFS.Sub: [fs, err]
MapFSSub(m, name) == MapFSSubStat(m, name, MapFSStat(m, name))

\* subFS.fullName
fullName(f, name) == IF name = Dot THEN f.name ELSE f.name \o <<"/">> \o name

\* subFS.Open
SubFSOpen(f, name) == MapFSOpen(f.files, fullName(f, name))

\* subFS.ReadLink
SubFSReadLink(f, name) == MapFSReadLink(f.files, fullName(f, name))

----------------------------------------------------------------------------
(* The fs.FS interface as EqualFS uses it, and the io/fs helpers *)

\* fsys.Open(name) on any of the file system values
FSOpen(f, name) ==
    IF f.kind = "MapFS" THEN MapFSOpen(f.files, name)
    ELSE IF f.kind = "subFS" THEN SubFSOpen(f, name)
    ELSE IF name \in f.fail
    THEN [file |-> NilFile, err |-> PathError("open", name, f.failErr)]
    ELSE StdOpen(f.files, name)

\* what a call does to file handles: a sequence of [op, side, path]
Ev(op, side, path) == [op |-> op, side |-> side, path |-> path]

\* the handle io/fs.Stat and io/fs.ReadDir open and close around their call
\* when the file system has no method of its own
Around(r, side, name) ==
    IF r.err = Nil THEN <<Ev("open", side, name), Ev("close", side, name)>> ELSE <<>>

StatEv(s, ev) == [info |-> s.info, err |-> s.err, ev |-> ev]

ListEv(d, ev) == [list |-> d.list, err |-> d.err, ev |-> ev]

\* io/fs.Stat through Open, r being what Open returned
FsStatOpened(r, side, name) == StatEv(StatOpened(r), Around(r, side, name))

\* io/fs.Stat(fsys, name): [info, err, ev]
FsStat(f, side, name) ==
    IF f.kind = "MapFS" \/ (f.kind = "other" /\ f.statFS)
    THEN StatEv(MapFSStat(f.files, name), <<>>)
    ELSE FsStatOpened(FSOpen(f, name), side, name)

\* io/fs.ReadDir through Open, r being what Open returned
FsReadDirOpened(r, side, name) ==
    ListEv(ReadDirOpened(r, name), Around(r, side, name))

\* io/fs.ReadDir(fsys, name): [list, err, ev]
FsReadDir(f, side, name) ==
    IF f.kind = "MapFS"
    THEN ListEv(MapFSReadDir(f.files, name), <<>>)
    ELSE FsReadDirOpened(FSOpen(f, name), side, name)

\* fslink.ReadLink(fsys, name): [link, err]
FsReadLink(f, name) ==
    IF f.kind = "subFS" THEN SubFSReadLink(f, name)
    ELSE MapFSReadLink(f.files, name)

----------------------------------------------------------------------------
(* EqualFS.  Each function yields [err, ev]: the error it returns and the  *)
(* handle operations it performed, in order.                               *)

equalFSMinSize == 1024
equalFSBufSize == 32768

\* a nil pointer dereference, which ends the whole call
Panic == [kind |-> "panic"]

Result(err, ev) == [err |-> err, ev |-> ev]

\* r after the handle operations ev
After(ev, r) == Result(r.err, ev \o r.ev)

\* equalErrorf(name, msg, args...), err being fmt.Errorf(msg, args...)
equalErrorf(name, err) == PathError("equal", name, err)

RECURSIVE unwrap(_)
unwrap(err) == IF Unwrap(err) = Nil THEN err ELSE unwrap(Unwrap(err))

\* err1 == err2 on error values: the sentinels are the same value, every
\* PathError and fmt error is an allocation of its own
SameError(err1, err2) ==
    err1 = err2 /\ err1.kind \notin {"PathError", "wrapError", "errorString"}

RECURSIVE ErrorsIs(_, _)
\* errors.Is(err, t)
ErrorsIs(err, t) ==
    IF err = Nil \/ t = Nil THEN err = t
    ELSE IF SameError(err, t) THEN TRUE
    ELSE IF Unwrap(err) = Nil THEN FALSE
    ELSE ErrorsIs(Unwrap(err), t)

equalTime(typ, s, t) ==
    IF s # 0 /\ t # 0 /\ s # t
    THEN Errorf(<<"file", typ, "times mismatch">>)
    ELSE Nil

\* fsinfo.AccessTime and fsinfo.ChangeTime of a MapFile's info: not recorded
AccessTime(info) == 0
ChangeTime(info) == 0

\* if err != nil { return err }, then the rest
OrElse(err, rest) == IF err # Nil THEN err ELSE rest

\* equalStat from the comparison of the sizes on
equalSize(si, ti) ==
    IF ~si.isDir /\ si.size # ti.size
    THEN Errorf(<<"files sizes mismatch">>)
    ELSE Nil

\* equalStat from the comparison of the times on
equalTimes(si, ti) ==
    OrElse(equalTime("modification", si.ModTime, ti.ModTime),
    OrElse(equalTime("access", AccessTime(si), AccessTime(ti)),
    OrElse(equalTime("change", ChangeTime(si), ChangeTime(ti)),
           equalSize(si, ti))))

\* equalStat once both fs.Stat calls succeeded
equalInfo(si, ti) ==
    IF si.Mode.type # ti.Mode.type THEN Errorf(<<"file types mismatch">>)
    ELSE IF si.Mode.perm # 0 /\ ti.Mode.perm # 0 /\ si.Mode.perm # ti.Mode.perm
    THEN Errorf(<<"file modes mismatch">>)
    ELSE equalTimes(si, ti)

\* equalStat, s and t being what the two fs.Stat calls return
equalStatOf(s, t) ==
    IF s.err # Nil THEN Result(s.err, s.ev)
    ELSE IF t.err # Nil THEN Result(t.err, s.ev \o t.ev)
    ELSE Result(equalInfo(s.info, t.info), s.ev \o t.ev)

equalStat(src, tgt, name) ==
    equalStatOf(FsStat(src, "source", name), FsStat(tgt, "target", name))

\* equalSymlink without the comparison of the two targets
equalSymlinkOf_NoCompare(name, s, t) ==
    IF s.err # Nil THEN Result(s.err, <<>>)
    ELSE IF t.err # Nil THEN Result(t.err, <<>>)
    ELSE Result(Nil, <<>>)

\* equalSymlink, s and t being what the two ReadLink calls return
equalSymlinkOf(name, s, t) ==
    IF s.err # Nil THEN Result(s.err, <<>>)
    ELSE IF t.err # Nil THEN Result(t.err, <<>>)
    ELSE IF s.link # t.link
    THEN Result(equalErrorf(name, Errorf(<<"symbolic links mimatch">>)), <<>>)
    ELSE Result(Nil, <<>>)

equalSymlink(src, tgt, name) ==
    equalSymlinkOf(name, FsReadLink(src, name), FsReadLink(tgt, name))

\* equalNode and the start of equalFile, st being what equalStat returned
WrapStat(name, st) ==
    IF st.err # Nil THEN Result(equalErrorf(name, ErrorfW(st.err)), st.ev)
    ELSE Result(Nil, st.ev)

equalNode(src, tgt, name) == WrapStat(name, equalStat(src, tgt, name))

RECURSIVE equalDataLoop(_, _, _, _)

\* one round of the loop of equalData without the comparison of the bytes
equalDataRound_NoCompare(r1, r2, len1, len2) ==
    IF r1.n # r2.n THEN Result(Errorf(<<"file read size mismatch">>), <<>>)
    ELSE IF ~SameError(r1.err, r2.err)
    THEN Result(Errorf(<<"file read error mismatch">>), <<>>)
    ELSE IF r1.err # Nil THEN Result(Nil, <<>>)
    ELSE equalDataLoop(r1.file, r2.file, len1, len2)

\* one round of the loop of equalData, r1 and r2 being what the Reads return
equalDataRound(r1, r2, len1, len2) ==
    IF r1.n # r2.n THEN Result(Errorf(<<"file read size mismatch">>), <<>>)
    ELSE IF r1.data # r2.data THEN Result(Errorf(<<"file content mismatch">>), <<>>)
    ELSE IF ~SameError(r1.err, r2.err)
    THEN Result(Errorf(<<"file read error mismatch">>), <<>>)
    ELSE IF r1.err # Nil THEN Result(Nil, <<>>)
    ELSE equalDataLoop(r1.file, r2.file, len1, len2)

\* the loop of equalData, buf1 and buf2 being given by their lengths; a nil
\* fs.File has no Read to call
equalDataLoop(sf, tf, len1, len2) ==
    IF sf = NilFile THEN Result(Panic, <<>>)
    ELSE IF tf = NilFile THEN Result(Panic, <<Ev("read", "source", sf.path)>>)
    ELSE After(<<Ev("read", "source", sf.path), Ev("read", "target", tf.path)>>,
               equalDataRound(FileRead(sf, len1), FileRead(tf, len2), len1, len2))

\* len(buf[:len(buf)/2]) and len(buf[len(buf)/2:])
Half1(n) == n \div 2
Half2(n) == n - (n \div 2)

equalData(sf, tf, n) == equalDataLoop(sf, tf, Half1(n), Half2(n))

\* the handles equalFile opens, in order
Opened(name, o1, o2) ==
    (IF o1.err = Nil THEN <<Ev("open", "source", name)>> ELSE <<>>)
    \o (IF o2.err = Nil THEN <<Ev("open", "target", name)>> ELSE <<>>)

\* the deferred Close calls of equalFile, were they deferred only once both
\* Open calls have succeeded
Deferred_BothOpened(name, o1, o2) ==
    IF o1.err = Nil /\ o2.err = Nil
    THEN <<Ev("close", "target", name), Ev("close", "source", name)>>
    ELSE <<>>

\* the deferred Close calls of equalFile, last deferred first
Deferred(name, o1, o2) ==
    (IF o2.err = Nil THEN <<Ev("close", "target", name)>> ELSE <<>>)
    \o (IF o1.err = Nil THEN <<Ev("close", "source", name)>> ELSE <<>>)

\* the end of equalFile, d being what equalData returned
WrapData(name, d) ==
    IF d.err = Panic \/ d.err = Nil THEN d
    ELSE Result(equalErrorf(name, ErrorfW(d.err)), d.ev)

\* equalFile after equalStat, o1 and o2 being what the two Open calls return
equalFileOpened(name, o1, o2, n) ==
    IF (o1.err # Nil \/ o2.err # Nil) /\ ~ErrorsIs(o1.err, unwrap(o2.err))
    THEN Result(equalErrorf(name, Errorf(<<"file open error mismatch">>)), <<>>)
    ELSE WrapData(name, equalData(o1.file, o2.file, n))

\* the body of equalFile between the Opens and the deferred Closes
equalFileBody(name, o1, o2, n) ==
    Result(equalFileOpened(name, o1, o2, n).err,
           Opened(name, o1, o2) \o equalFileOpened(name, o1, o2, n).ev
           \o Deferred(name, o1, o2))

\* equalFile, st being what equalStat returned
equalFileStat(src, tgt, name, n, st) ==
    IF st.err # Nil THEN WrapStat(name, st)
    ELSE After(st.ev, equalFileBody(name, FSOpen(src, name), FSOpen(tgt, name), n))

equalFile(src, tgt, name, n) ==
    equalFileStat(src, tgt, name, n, equalStat(src, tgt, name))

RECURSIVE equalDir(_, _, _, _)
RECURSIVE equalDirLoop(_, _, _, _, _, _, _)

\* the switch of equalDir on the type of the entry
equalEntry(src, tgt, filePath, n, type) ==
    IF type = ModeSymlink THEN equalSymlink(src, tgt, filePath)
    ELSE IF type = ModeDir THEN equalDir(src, tgt, filePath, n)
    ELSE IF type = ModeRegular THEN equalFile(src, tgt, filePath, n)
    ELSE equalNode(src, tgt, filePath)

\* the end of one round of the loop of equalDir, r being what the switch gave
equalDirRound(src, tgt, name, n, se, te, i, r) ==
    IF r.err # Nil THEN r
    ELSE After(r.ev, equalDirLoop(src, tgt, name, n, se, te, i + 1))

\* the loop of equalDir from entry i on
equalDirLoop(src, tgt, name, n, se, te, i) ==
    IF i > Len(se) THEN Result(Nil, <<>>)
    ELSE IF se[i].name # te[i].name
    THEN Result(equalErrorf(name, Errorf(<<"name of directory entry %d mismatch">>)), <<>>)
    ELSE IF se[i].file.Mode.type # te[i].file.Mode.type
    THEN Result(equalErrorf(name, Errorf(<<"name of directory entry %q mismatch">>)), <<>>)
    ELSE After(<<Ev("entry", "both", PathJoin(name, se[i].name))>>,
               equalDirRound(src, tgt, name, n, se, te, i,
                   equalEntry(src, tgt, PathJoin(name, se[i].name), n,
                              se[i].file.Mode.type)))

\* equalDir, s and t being what the two fs.ReadDir calls return
equalDirOf(src, tgt, name, n, s, t) ==
    IF s.err # Nil THEN Result(s.err, s.ev)
    ELSE IF t.err # Nil THEN Result(t.err, s.ev \o t.ev)
    ELSE IF Len(s.list) # Len(t.list)
    THEN Result(equalErrorf(name,
                    Errorf(<<"number of directory entries mismatch">>)),
                s.ev \o t.ev)
    ELSE After(s.ev \o t.ev, equalDirLoop(src, tgt, name, n, s.list, t.list, 1))

equalDir(src, tgt, name, n) ==
    equalDirOf(src, tgt, name, n,
               FsReadDir(src, "source", name), FsReadDir(tgt, "target", name))

\* len(buf) once EqualFSBuffer has replaced a buffer that is too small
WorkingLen(n) == IF n < equalFSMinSize THEN equalFSBufSize ELSE n

\* EqualFSBuffer(a, b, buf) with len(buf) = n
EqualFSBuffer(a, b, n) == equalDir(a, b, Dot, WorkingLen(n))

\* EqualFS(a, b)
EqualFS(a, b) == EqualFSBuffer(a, b, 0)

----------------------------------------------------------------------------
(* The file systems and names the model draws its inputs from *)

LongLen == 520     \* length of the long file content

pA == <<"a">>
pAA == <<"a", "/", "a">>
pAB == <<"a", "/", "b">>

Data1 == <<"x", "y">>
Data2 == <<"x", "x">>
DataLong == [i \in 1..LongLen |-> "x"]
Link1 == <<".", ".", "/", "a">>

\* stands for a path the map literal leaves out
NoFile == MapFile("undeclared", 0, <<>>, 0)

RecordsA ==
    {MapFile(ModeDir, 493, <<>>, 1), MapFile(ModeDir, 0, <<>>, 1),
     MapFile(ModeRegular, 420, Data1, 1)}

RecordsAA ==
    {MapFile(ModeRegular, 420, Data1, 1), MapFile(ModeRegular, 420, Data2, 1),
     MapFile(ModeRegular, 420, DataLong, 1),
     MapFile(ModeRegular, 0, Data1, 1), MapFile(ModeRegular, 0, Data2, 1),
     MapFile(ModeSymlink, 438, Link1, 1), MapFile(ModeSymlink, 438, <<>>, 1)}

RecordsAB ==
    {MapFile(ModeRegular, 420, Data1, 1), MapFile(ModeSymlink, 438, Link1, 1),
     MapFile(ModeNamedPipe, 420, <<>>, 1)}

\* the map literal with the given records (NoFile: path left out)
MakeMap(ra, raa, rab) ==
    LET keys == (IF ra = NoFile THEN {} ELSE {pA})
                \cup (IF raa = NoFile THEN {} ELSE {pAA})
                \cup (IF rab = NoFile THEN {} ELSE {pAB})
    IN  [k \in keys |-> IF k = pA THEN ra ELSE IF k = pAA THEN raa ELSE rab]

Maps ==
    {MakeMap(ra, raa, rab) : ra \in RecordsA \cup {NoFile},
                             raa \in RecordsAA \cup {NoFile},
                             rab \in RecordsAB \cup {NoFile}}

\* the maps whose file contents are short
ShortMaps == {m \in Maps : \A k \in DOMAIN m : Len(m[k].Data) < LongLen}

\* names given to the file system operations, valid and invalid
Names ==
    {Dot, pA, pAA, pAB, <<"b">>, <<>>, <<".", "/", "a">>, <<"a", "/">>,
     <<".", ".">>}

StdDirPerms == {0, 365}   \* ModeDir alone, or ModeDir | 0555

----------------------------------------------------------------------------
(* File system operations as the steps of a test: one call on the MapFS or *)
(* on a view a Sub call returned, then reads on the handle it returned,     *)
(* until the handle is closed.  The calls change nothing in the MapFS, so   *)
(* the next call starts from the same state.                                *)

NoFS == FS("none", <<>>, Dot, {}, Nil, FALSE)

Outcome(op, via, sub, name, err, info, link) ==
    [op |-> op, via |-> via, sub |-> sub, name |-> name, err |-> err,
     info |-> info, link |-> link]

NoOutcome == Outcome("none", "none", <<>>, <<>>, Nil, NilInfo, <<>>)

cmpVars == <<source, target, buflen, pc, events, handles, entry, result>>

InitFS ==
    /\ stdDirPerm \in StdDirPerms
    /\ fsys \in ShortMaps
    /\ file = NilFile
    /\ last = NoOutcome
    /\ source = NoFS /\ target = NoFS /\ buflen = 0 /\ pc = "idle"
    /\ events = <<>> /\ handles = <<>> /\ entry = <<>> /\ result = Nil

\* fsys.Open(name)
Open(name) ==
    LET r == MapFSOpen(fsys, name)
    IN  /\ last = NoOutcome
        /\ file' = r.file
        /\ last' = Outcome("Open", "MapFS", <<>>, name, r.err,
                           FileStat(r.file).info, <<>>)
        /\ UNCHANGED <<stdDirPerm, fsys, cmpVars>>

\* sub, err := fsys.Sub(dir), and when that succeeds sub.Open(name)
OpenSub(dir, name) ==
    LET v == MapFSSub(fsys, dir)
        r == SubFSOpen(v.fs, name)
    IN  /\ last = NoOutcome
        /\ v.err = Nil
        /\ file' = r.file
        /\ last' = Outcome("Open", "subFS", dir, name, r.err,
                           FileStat(r.file).info, <<>>)
        /\ UNCHANGED <<stdDirPerm, fsys, cmpVars>>

\* fsys.Stat(name)
Stat(name) ==
    LET r == MapFSStat(fsys, name)
    IN  /\ last = NoOutcome
        /\ last' = Outcome("Stat", "MapFS", <<>>, name, r.err, r.info, <<>>)
        /\ UNCHANGED <<stdDirPerm, fsys, file, cmpVars>>

\* fsys.ReadLink(name)
ReadLink(name) ==
    LET r == MapFSReadLink(fsys, name)
    IN  /\ last = NoOutcome
        /\ last' = Outcome("ReadLink", "MapFS", <<>>, name, r.err, NilInfo, r.link)
        /\ UNCHANGED <<stdDirPerm, fsys, file, cmpVars>>

\* sub, err := fsys.Sub(dir), and when that succeeds sub.ReadLink(name)
ReadLinkSub(dir, name) ==
    LET v == MapFSSub(fsys, dir)
        r == SubFSReadLink(v.fs, name)
    IN  /\ last = NoOutcome
        /\ v.err = Nil
        /\ last' = Outcome("ReadLink", "subFS", dir, name, r.err, NilInfo, r.link)
        /\ UNCHANGED <<stdDirPerm, fsys, file, cmpVars>>

\* fsys.Sub(name)
Sub(name) ==
    LET r == MapFSSub(fsys, name)
    IN  /\ last = NoOutcome
        /\ last' = Outcome("Sub", "MapFS", <<>>, name, r.err, NilInfo, <<>>)
        /\ UNCHANGED <<stdDirPerm, fsys, file, cmpVars>>

\* file.Read(b) with len(b) = n, on the open handle
Read(n) ==
    LET r == FileRead(file, n)
    IN  /\ file # NilFile
        /\ file' = r.file
        /\ last' = [last EXCEPT !.op = "Read", !.err = r.err, !.link = r.data]
        /\ UNCHANGED <<stdDirPerm, fsys, cmpVars>>

\* file.ReadDir(count) on the open handle, when it has the method
ReadDir(count) ==
    LET r == FileReadDir(file, count)
    IN  /\ file # NilFile
        /\ IsReadDirFile(file)
        /\ file' = r.file
        /\ last' = [last EXCEPT !.op = "ReadDir", !.err = r.err, !.link = <<>>]
        /\ UNCHANGED <<stdDirPerm, fsys, cmpVars>>

\* file.Close()
Close ==
    /\ file # NilFile
    /\ file' = NilFile
    /\ last' = NoOutcome
    /\ UNCHANGED <<stdDirPerm, fsys, cmpVars>>

NextFS ==
    \/ \E name \in Names : Open(name)
    \/ \E dir \in Names, name \in Names : OpenSub(dir, name)
    \/ \E name \in Names : Stat(name)
    \/ \E name \in Names : ReadLink(name)
    \/ \E dir \in Names, name \in Names : ReadLinkSub(dir, name)
    \/ \E name \in Names : Sub(name)
    \/ \E n \in {1, 2} : Read(n)
    \/ \E count \in {-1, 1} : ReadDir(count)
    \/ Close

SpecFS == InitFS /\ [][NextFS]_vars

----------------------------------------------------------------------------
(* A call of EqualFSBuffer, step by step through its handle operations *)

\* another fs.FS implementation under test: serves the map m, fails Open on
\* the paths in fail, and has a Stat method of its own when statFS
Other(m, fail, failErr, statFS) == FS("other", m, Dot, fail, failErr, statFS)

\* the paths on which a and b do not hold the same record
Differing(a, b) ==
    {k \in DOMAIN a \cup DOMAIN b :
        ~(k \in DOMAIN a /\ k \in DOMAIN b /\ a[k] = b[k])}

MaxFail == 1      \* paths on which another file system fails Open

BufLens == {0, equalFSMinSize - 1, equalFSMinSize, equalFSMinSize + 1}

FailSets == {S \in SUBSET {pAA, pAB} : Cardinality(S) <= MaxFail}

\* the maps served by the other file systems: short files below a directory
OtherMaps ==
    {m \in ShortMaps : pA \notin DOMAIN m /\ pAA \in DOMAIN m
                       /\ m[pAA].Mode.type = ModeRegular /\ m[pAA].Data = Data1}

\* the pairs of file systems EqualFSBuffer is called on: two MapFS that
\* differ on at most one path, a view of a MapFS and itself, or two
\* other file systems serving the same map
IsPair(a, b) ==
    \/ \E m1 \in Maps, m2 \in Maps :
          /\ Cardinality(Differing(m1, m2)) <= 1
          /\ a = MapFS(m1) /\ b = MapFS(m2)
    \/ \E m \in ShortMaps, dir \in {Dot, pA} :
          /\ MapFSSub(m, dir).err = Nil
          /\ a = MapFSSub(m, dir).fs /\ b = a
    \/ \E m \in OtherMaps, f1 \in FailSets, f2 \in FailSets,
          e2 \in {ErrNotExist, ErrPermission}, st \in BOOLEAN :
          /\ a = Other(m, f1, ErrNotExist, st)
          /\ b = Other(m, f2, e2, st)

fsVars == <<fsys, file, last>>

Init ==
    /\ stdDirPerm \in StdDirPerms
    /\ IsPair(source, target)
    /\ buflen \in BufLens
    /\ pc = "start"
    /\ events = <<>>
    /\ handles = <<>>
    /\ entry = <<>>
    /\ result = Nil
    /\ fsys = <<>> /\ file = NilFile /\ last = NoOutcome

\* the test calls EqualFSBuffer(source, target, buf)
Call ==
    /\ pc = "start"
    /\ pc' = "running"
    /\ events' = EqualFSBuffer(source, target, buflen).ev
    /\ UNCHANGED <<stdDirPerm, source, target, buflen, handles, entry, result, fsVars>>

\* handles without the first one equal to h
RECURSIVE Without(_, _)
Without(hs, h) ==
    IF hs = <<>> THEN <<>>
    ELSE IF hs[1] = h THEN Tail(hs)
    ELSE <<hs[1]>> \o Without(Tail(hs), h)

Running(op) == pc = "running" /\ events # <<>> /\ events[1].op = op

\* the loop of equalDir reaches its next entry
NextEntry ==
    /\ Running("entry")
    /\ entry' = events[1].path
    /\ events' = Tail(events)
    /\ UNCHANGED <<stdDirPerm, source, target, buflen, pc, handles, result, fsVars>>

\* Open succeeds on one side
OpenFile ==
    /\ Running("open")
    /\ handles' = Append(handles, <<events[1].side, events[1].path>>)
    /\ events' = Tail(events)
    /\ UNCHANGED <<stdDirPerm, source, target, buflen, pc, entry, result, fsVars>>

\* one Read call of equalData
ReadFile ==
    /\ Running("read")
    /\ events' = Tail(events)
    /\ UNCHANGED <<stdDirPerm, source, target, buflen, pc, handles, entry, result, fsVars>>

\* Close, deferred or at the end of an io/fs helper
CloseFile ==
    /\ Running("close")
    /\ handles' = Without(handles, <<events[1].side, events[1].path>>)
    /\ events' = Tail(events)
    /\ UNCHANGED <<stdDirPerm, source, target, buflen, pc, entry, result, fsVars>>

\* EqualFSBuffer returns, or panics
Return ==
    /\ pc = "running"
    /\ events = <<>>
    /\ result' = EqualFSBuffer(source, target, buflen).err
    /\ pc' = IF result' = Panic THEN "panicked" ELSE "done"
    /\ UNCHANGED <<stdDirPerm, source, target, buflen, events, handles, entry, fsVars>>

Next == Call \/ NextEntry \/ OpenFile \/ ReadFile \/ CloseFile \/ Return

Spec == Init /\ [][Next]_vars

----------------------------------------------------------------------------
(* What the claims speak of *)

Returned == pc \in {"done", "panicked"}

\* the test called EqualFS: EqualFSBuffer with a nil buffer
CalledEqualFS == buflen = 0

\* the directories a path lies in, the root left out
Ancestors(p) == {SubSeq(p, 1, i - 1) : i \in {j \in 1..Len(p) : p[j] = "/"}}

\* name is a directory of m only because a declared path lies below it
ImpliedDir(m, name) ==
    /\ ValidPath(name)
    /\ name \notin DOMAIN m
    /\ \/ name = Dot /\ DOMAIN m # {}
       \/ \E k \in DOMAIN m : HasPrefix(k, name \o <<"/">>)

\* name exists in m: it is declared, an implied directory, or the root
Exists(m, name) ==
    ValidPath(name) /\ (name \in DOMAIN m \/ ImpliedDir(m, name) \/ name = Dot)

\* the path of name below the directory dir
Rebase(dir, name) ==
    IF name = Dot THEN dir
    ELSE IF dir = Dot THEN name
    ELSE dir \o <<"/">> \o name

\* a and b are MapFS that differ at path p alone, in the Data of an entry
\* of the given type
DataDiffersAt(a, b, p, type) ==
    /\ a.kind = "MapFS" /\ b.kind = "MapFS"
    /\ Differing(a.files, b.files) = {p}
    /\ p \in DOMAIN a.files /\ p \in DOMAIN b.files
    /\ a.files[p].Mode = b.files[p].Mode
    /\ a.files[p].Mode.type = type
    /\ a.files[p].ModTime = b.files[p].ModTime
    /\ a.files[p].Data # b.files[p].Data

\* the walk from the root reaches p: no directory above it is declared as
\* something else than a directory
Reached(m, p) == \A d \in Ancestors(p) : d \in DOMAIN m => m[d].Mode.type = ModeDir

IsEqualError(err, p) == err.kind = "PathError" /\ err.op = "equal" /\ err.path = p

ContentMismatch(p) == equalErrorf(p, ErrorfW(Errorf(<<"file content mismatch">>)))
SizesMismatch(p) == equalErrorf(p, ErrorfW(Errorf(<<"files sizes mismatch">>)))
OpenMismatch(p) == equalErrorf(p, Errorf(<<"file open error mismatch">>))

----------------------------------------------------------------------------
(* Claims *)

\* C1: EqualFS(F, F) returns nil for every file system F: a MapFS, a Sub
\* view of one, or another provider, unreadable entries and failing opens
\* included.
C1_Reflexive ==
    (Returned /\ CalledEqualFS /\ source = target) => (pc = "done" /\ result = Nil)

\* C2, as claimed: two MapFS that differ only in the target of the symlink
\* at p make EqualFS return an error with Op "equal" and Path p.
C2_AnySymlink ==
    \A p \in {pA, pAA, pAB} :
        (Returned /\ CalledEqualFS /\ DataDiffersAt(source, target, p, ModeSymlink))
            => (pc = "done" /\ IsEqualError(result, p))

\* C2, amended: the same, for a symlink the directory walk reaches (no
\* directory above p is declared as a file, symlink or other node).
C2_ReachedSymlink ==
    \A p \in {pA, pAA, pAB} :
        (Returned /\ CalledEqualFS /\ DataDiffersAt(source, target, p, ModeSymlink)
                  /\ Reached(source.files, p))
            => (pc = "done" /\ IsEqualError(result, p))

C2_Witness ==
    /\ pc = "done" /\ CalledEqualFS
    /\ DataDiffersAt(source, target, pAA, ModeSymlink)
    /\ target.files[pAA].Data = <<>>
    /\ Reached(source.files, pAA)
    /\ IsEqualError(result, pAA)

\* C3, as claimed: two MapFS that differ only in the bytes of the regular
\* file at p make EqualFS return a content-mismatch error at p, whatever the
\* mode of the file and the lengths of the two contents.
C3_AnyFile ==
    \A p \in {pA, pAA, pAB} :
        (Returned /\ CalledEqualFS /\ DataDiffersAt(source, target, p, ModeRegular))
            => (pc = "done" /\ result = ContentMismatch(p))

\* C3, amended: for a regular file the directory walk reaches, EqualFS
\* returns a sizes-mismatch error at p when the two contents differ in
\* length, a content-mismatch error at p when they have the same length and
\* the mode has the owner-read bit, and nil when they have the same length
\* and the mode lacks the owner-read bit.
C3_ReachedFile ==
    \A p \in {pA, pAA, pAB} :
        (Returned /\ CalledEqualFS /\ DataDiffersAt(source, target, p, ModeRegular)
                  /\ Reached(source.files, p))
            => /\ pc = "done"
               /\ result =
                    IF Len(source.files[p].Data) # Len(target.files[p].Data)
                    THEN SizesMismatch(p)
                    ELSE IF HasBit(source.files[p].Mode.perm, OwnerRead)
                    THEN ContentMismatch(p)
                    ELSE Nil

C3_Witness ==
    /\ pc = "done" /\ CalledEqualFS
    /\ DataDiffersAt(source, target, pAA, ModeRegular)
    /\ Reached(source.files, pAA)
    /\ Len(source.files[pAA].Data) = Len(target.files[pAA].Data)
    /\ HasBit(source.files[pAA].Mode.perm, OwnerRead)
    /\ result = ContentMismatch(pAA)

\* C4: for a directory that exists only as a prefix of a declared path, the
\* root included, MapFS.Stat and the Stat of the handle MapFS.Open returns
\* both report mode directory | 0700.
C4_ImpliedDirMode ==
    (last.op \in {"Stat", "Open"} /\ last.via = "MapFS" /\ ImpliedDir(fsys, last.name))
        => /\ last.err = Nil
           /\ last.info.Mode = [type |-> ModeDir, perm |-> VirtualDirPerm]

\* C5: EqualFSBuffer works with 32768 bytes when len(buf) < 1024 and with
\* the caller's buffer otherwise, split in two halves of the same length, so
\* that its result is the result of EqualFS on the same pair.
C5_BufferHalves ==
    Returned =>
        /\ WorkingLen(buflen) = (IF buflen < 1024 THEN 32768 ELSE buflen)
        /\ result = EqualFS(source, target).err

\* C6: MapFS.ReadLink returns the stored Data for a declared symlink, fails
\* with "invalid" for every other path that exists (declared files and
\* directories, implied directories, the root), and fails with "not exist"
\* for an invalid or absent path.
C6_ReadLinkOutcomes ==
    (last.op = "ReadLink" /\ last.via = "MapFS") =>
        IF ValidPath(last.name) /\ last.name \in DOMAIN fsys
           /\ fsys[last.name].Mode.type = ModeSymlink
        THEN last.err = Nil /\ last.link = fsys[last.name].Data
        ELSE IF Exists(fsys, last.name)
        THEN last.err = PathError("readlink", last.name, ErrInvalid)
        ELSE last.err = PathError("readlink", last.name, ErrNotExist)

\* C7: MapFS.Sub(p) fails exactly when p does not exist; on the view of an
\* existing p, the root included, Open(n) and ReadLink(n) give what Open and
\* ReadLink give on the parent at the path of n below p.
C7_SubView ==
    /\ last.op = "Sub" => (last.err # Nil <=> ~Exists(fsys, last.name))
    /\ (last.op = "Open" /\ last.via = "subFS") =>
          /\ unwrap(last.err) = unwrap(MapFSOpen(fsys, Rebase(last.sub, last.name)).err)
          /\ file = MapFSOpen(fsys, Rebase(last.sub, last.name)).file
    /\ (last.op = "ReadLink" /\ last.via = "subFS") =>
          /\ unwrap(last.err) = unwrap(MapFSReadLink(fsys, Rebase(last.sub, last.name)).err)
          /\ last.link = MapFSReadLink(fsys, Rebase(last.sub, last.name)).link

\* the declared path an Open call, direct or through a view, is aimed at
Aimed == IF last.via = "subFS" THEN Rebase(last.sub, last.name) ELSE last.name

\* C8: Open of a declared entry without the owner-read bit, directly or
\* through a Sub view, succeeds, and every Read and ReadDir on the handle
\* fails with permission denied; handles of entries with the bit and of
\* implied directories do not deny reads.
C8_DenyRead ==
    /\ (last.op \in {"Open", "Read", "ReadDir"} /\ ValidPath(last.name)
        /\ Aimed \in DOMAIN fsys /\ ~HasBit(fsys[Aimed].Mode.perm, OwnerRead))
          => /\ last.op = "Open" => last.err = Nil /\ file # NilFile
             /\ last.op \in {"Read", "ReadDir"} => last.err = ErrPermission
    /\ (last.op \in {"Read", "ReadDir"} /\ ValidPath(last.name)
        /\ \/ Aimed \in DOMAIN fsys /\ HasBit(fsys[Aimed].Mode.perm, OwnerRead)
           \/ ImpliedDir(fsys, Aimed))
          => last.err # ErrPermission

\* Open failed on a side of the regular file the comparison ended at
OpenFailed ==
    /\ source.kind = "other" /\ source.statFS /\ target.statFS
    /\ entry \in DOMAIN source.files
    /\ source.files[entry].Mode.type = ModeRegular
    /\ FSOpen(source, entry).err # Nil \/ FSOpen(target, entry).err # Nil

\* C9: when Open of a regular file fails on a side, equalFile returns an
\* open-error-mismatch error at its path if the root causes of the two
\* errors differ, and ends normally with success, without a read, if they
\* are the same.
C9_OpenErrors ==
    (Returned /\ OpenFailed) =>
        /\ pc = "done"
        /\ result = IF unwrap(FSOpen(source, entry).err) = unwrap(FSOpen(target, entry).err)
                    THEN Nil
                    ELSE OpenMismatch(entry)

HandlesOf(side) == {i \in DOMAIN handles : handles[i][1] = side}

\* C10: every handle equalFile opens is closed before the comparison moves
\* to the next entry and before EqualFS returns, on every way out of
\* equalFile, and at most one handle per side is open at any time.
C10_HandlesScoped ==
    /\ \A side \in {"source", "target"} : Cardinality(HandlesOf(side)) <= 1
    /\ Returned => handles = <<>>
    /\ (pc = "running" /\ events = <<>>) => handles = <<>>
    /\ Running("entry") => handles = <<>>

C10_Witness ==
    /\ pc = "done"
    /\ handles = <<>>
    /\ result = OpenMismatch(entry)
    /\ FSOpen(source, entry).err = Nil
    /\ FSOpen(target, entry).err # Nil
====
